---- MODULE Spec2Model ----
(***************************************************************************)
(* A state-machine model of organizer.py: the FileOrganizer class and the *)
(* script's entry point.  A file name is a sequence of one-character       *)
(* strings, a path is a sequence of names relative to the target           *)
(* directory (the target itself is the empty path), and the file system    *)
(* is the set of directories together with the set of regular files, each  *)
(* file carrying its content.                                              *)
(***************************************************************************)
EXTENDS Naturals, Sequences, FiniteSets

VARIABLES
    dirs,            \* the paths that are directories
    files,           \* the regular files: records [path, content]
    config,          \* the configuration resource: "absent" or "valid"
    pc,              \* position of the entry point
    run,             \* number of the current invocation of the script
    listing,         \* the names os.listdir returned to the running loop
    pending,         \* the names of the listing the loop has not reached yet
    files_moved,     \* organize_files' counter
    files_skipped,   \* organize_files' counter
    outcome,         \* what the loop did with each name it has reached
    start_dirs,      \* the listed names that were directories when listed
    prev_clean,      \* the previous invocation reported, with no failed move
    dirs0,           \* the directories before the first invocation
    files0           \* the regular files before the first invocation

vars == <<dirs, files, config, pc, run, listing, pending, files_moved,
          files_skipped, outcome, start_dirs, prev_clean, dirs0, files0>>

\* ------------------------------------------------------------------ bounds
\* Most entries the target directory holds before the first invocation.
MaxEntries == 2
\* Most entries that exist below the target's sub-folders beforehand.
MaxNested == 1
\* Most invocations of the script.
MaxRuns == 2

\* ----------------------------------------------------------------- strings
Upper ==
    <<"A", "B", "C", "D", "E", "F", "G", "H", "I", "J", "K", "L", "M",
      "N", "O", "P", "Q", "R", "S", "T", "U", "V", "W", "X", "Y", "Z">>

Lowered ==
    <<"a", "b", "c", "d", "e", "f", "g", "h", "i", "j", "k", "l", "m",
      "n", "o", "p", "q", "r", "s", "t", "u", "v", "w", "x", "y", "z">>

\* str.lower, on the ASCII letters
lower(s) ==
    [i \in 1..Len(s) |->
        IF \E k \in 1..Len(Upper) : Upper[k] = s[i]
        THEN Lowered[CHOOSE k \in 1..Len(Upper) : Upper[k] = s[i]]
        ELSE s[i]]

\* str.rfind of one character, 1-based; 0 when the character is absent
rfind(p, c) ==
    IF \E i \in 1..Len(p) : p[i] = c
    THEN CHOOSE i \in 1..Len(p) :
            p[i] = c /\ \A j \in (i + 1)..Len(p) : p[j] # c
    ELSE 0

\* A splitext that cuts at the last dot wherever it stands.
splitext_last_dot(p) ==
    LET dotIndex == rfind(p, ".") IN
    IF dotIndex > 0
    THEN <<SubSeq(p, 1, dotIndex - 1), SubSeq(p, dotIndex, Len(p))>>
    ELSE <<p, <<>>>>

\* os.path.splitext on a name without separators: the name is cut at its
\* last dot, unless nothing but dots precedes that dot
splitext(p) ==
    LET dotIndex == rfind(p, ".") IN
    IF dotIndex > 0 /\ \E k \in 1..(dotIndex - 1) : p[k] # "."
    THEN <<SubSeq(p, 1, dotIndex - 1), SubSeq(p, dotIndex, Len(p))>>
    ELSE <<p, <<>>>>

\* ----------------------------------------------------------------- mapping
mappings ==
    <<
        [category |-> <<"I", "m", "a", "g", "e", "s">>,
         extensions |-> <<
             <<".", "j", "p", "g">>,
             <<".", "j", "p", "e", "g">>,
             <<".", "p", "n", "g">>,
             <<".", "g", "i", "f">>,
             <<".", "b", "m", "p">>,
             <<".", "t", "i", "f", "f">>,
             <<".", "w", "e", "b", "p">>,
             <<".", "s", "v", "g">>>>],
        [category |-> <<"D", "o", "c", "u", "m", "e", "n", "t", "s">>,
         extensions |-> <<
             <<".", "p", "d", "f">>,
             <<".", "d", "o", "c", "x">>,
             <<".", "d", "o", "c">>,
             <<".", "x", "l", "s", "x">>,
             <<".", "x", "l", "s">>,
             <<".", "p", "p", "t", "x">>,
             <<".", "p", "p", "t">>,
             <<".", "t", "x", "t">>,
             <<".", "r", "t", "f">>,
             <<".", "o", "d", "t">>>>],
        [category |-> <<"A", "r", "c", "h", "i", "v", "e", "s">>,
         extensions |-> <<
             <<".", "z", "i", "p">>,
             <<".", "r", "a", "r">>,
             <<".", "7", "z">>,
             <<".", "t", "a", "r">>,
             <<".", "g", "z">>>>],
        [category |-> <<"A", "u", "d", "i", "o">>,
         extensions |-> <<
             <<".", "m", "p", "3">>,
             <<".", "w", "a", "v">>,
             <<".", "a", "a", "c">>,
             <<".", "f", "l", "a", "c">>,
             <<".", "o", "g", "g">>>>],
        [category |-> <<"V", "i", "d", "e", "o">>,
         extensions |-> <<
             <<".", "m", "p", "4">>,
             <<".", "m", "k", "v">>,
             <<".", "a", "v", "i">>,
             <<".", "m", "o", "v">>,
             <<".", "w", "m", "v">>,
             <<".", "f", "l", "v">>>>],
        [category |-> <<"S", "c", "r", "i", "p", "t", "s">>,
         extensions |-> <<
             <<".", "p", "y">>,
             <<".", "j", "s">>,
             <<".", "s", "h">>,
             <<".", "b", "a", "t">>>>],
        [category |-> <<"E", "x", "e", "c", "u", "t", "a", "b", "l", "e", "s">>,
         extensions |-> <<
             <<".", "e", "x", "e">>,
             <<".", "m", "s", "i">>,
             <<".", "d", "m", "g">>>>]
    >>

\* the extensions category number i lists
extensions_of(i) ==
    {mappings[i].extensions[j] : j \in 1..Len(mappings[i].extensions)}

\* the inverted dictionary {'.ext': 'Category'}; the comprehension visits
\* the categories in order, so the last category listing an extension wins
create_default_mappings ==
    [ext \in UNION {extensions_of(i) : i \in 1..Len(mappings)} |->
        mappings[CHOOSE i \in 1..Len(mappings) :
                    /\ ext \in extensions_of(i)
                    /\ \A k \in (i + 1)..Len(mappings) :
                          ext \notin extensions_of(k)].category]

\* self.file_mappings, set once by __init__
file_mappings == create_default_mappings

Other == <<"O", "t", "h", "e", "r">>

\* A lookup that forgets the lower-casing result and files everything
\* under the default.
destination_folder_name_default_only(filename) == Other

\* self.file_mappings.get(file_extension, 'Other') for the name's extension
destination_folder_name(filename) ==
    LET file_extension == lower(splitext(filename)[2]) IN
    IF file_extension \in DOMAIN file_mappings
    THEN file_mappings[file_extension]
    ELSE Other

\* ------------------------------------------------------------- file system
target_directory == <<>>

FilePaths == {r.path : r \in files}

isdir(p) == p \in dirs

exists(p) == p \in dirs \/ p \in FilePaths

\* os.listdir of a directory: the names of its immediate entries
listdir(p) ==
    {q[Len(q)] : q \in {q \in dirs \cup FilePaths :
                          Len(q) = Len(p) + 1 /\ SubSeq(q, 1, Len(p)) = p}}

\* os.path.join of a directory and a name
join(p, name) == Append(p, name)

\* os.makedirs(p, exist_ok=True) below an existing parent raises exactly
\* when p exists and is not a directory
makedirs_raises(p) == p \in FilePaths

makedirs(p) == dirs \cup {p}

\* shutil.move(src, dst) of a regular file: into dst when dst is a
\* directory, onto dst otherwise
real_dst(src, dst) == IF isdir(dst) THEN join(dst, src[Len(src)]) ELSE dst

\* shutil.Error: the destination is a directory that holds the name already
move_raises(src, dst) == isdir(dst) /\ exists(real_dst(src, dst))

\* A move that copies and forgets to remove the source.
move_keeps_source(src, dst) ==
    LET content == (CHOOSE r \in files : r.path = src).content IN
    {r \in files : r.path # real_dst(src, dst)}
        \cup {[path |-> real_dst(src, dst), content |-> content]}

\* the files after os.rename(src, real_dst): the source is gone and the
\* destination holds its content, replacing a file that stood there
move(src, dst) ==
    LET content == (CHOOSE r \in files : r.path = src).content IN
    {r \in files : r.path # src /\ r.path # real_dst(src, dst)}
        \cup {[path |-> real_dst(src, dst), content |-> content]}

\* ------------------------------------------------------------ initial state
\* The names the target directory may hold before the first invocation:
\* a.JPG, notes, .bashrc, c., d.xyz, and the names of two categories.
NamePool ==
    { <<"a", ".", "J", "P", "G">>,
      <<"n", "o", "t", "e", "s">>,
      <<".", "b", "a", "s", "h", "r", "c">>,
      <<"c", ".">>,
      <<"d", ".", "x", "y", "z">>,
      <<"O", "t", "h", "e", "r">>,
      <<"I", "m", "a", "g", "e", "s">> }

\* What may stand beforehand at sub-folder d under the name n of a file of
\* the target: a file, an empty folder, or a folder holding a file n.
NestedKinds == {"file", "dir", "dir_with_file"}

\* a file that has its own path as content: no two files are the same
file_at(p) == [path |-> p, content |-> p]

\* the tree with the folders D and the files F in the target directory and
\* the entries N below the folders
tree_dirs(D, N) ==
    {target_directory} \cup {<<d>> : d \in D}
        \cup {<<e.dir, e.name>> : e \in {e \in N : e.kind # "file"}}

tree_files(F, N) ==
    {file_at(<<f>>) : f \in F}
        \cup {file_at(<<e.dir, e.name>>) : e \in {e \in N : e.kind = "file"}}
        \cup {file_at(<<e.dir, e.name, e.name>>) :
                e \in {e \in N : e.kind = "dir_with_file"}}

InitTree ==
    \/ \E S \in {S \in SUBSET NamePool : Cardinality(S) <= MaxEntries} :
       \E D \in SUBSET S :
       \E N \in {N \in SUBSET [dir : D, name : S \ D, kind : NestedKinds] :
                    /\ Cardinality(N) <= MaxNested
                    /\ \A e1, e2 \in N :
                          e1.dir = e2.dir /\ e1.name = e2.name => e1 = e2} :
          /\ dirs = tree_dirs(D, N)
          /\ files = tree_files(S \ D, N)
    \* the target path is a regular file
    \/ dirs = {} /\ files = {file_at(target_directory)}
    \* the target path does not exist
    \/ dirs = {} /\ files = {}

Init ==
    /\ InitTree
    /\ config \in {"absent", "valid"}
    /\ pc = "main"
    /\ run = 1
    /\ listing = {}
    /\ pending = {}
    /\ files_moved = 0
    /\ files_skipped = 0
    /\ outcome = {}
    /\ start_dirs = {}
    /\ prev_clean = FALSE
    /\ dirs0 = dirs
    /\ files0 = files

\* ------------------------------------------------------------------ actions
\* A constructor that does not validate the target path.
Construct_unvalidated ==
    /\ pc = "main"
    /\ pc' = "initialized"
    /\ UNCHANGED <<dirs, files, config, run, listing, pending, files_moved,
                   files_skipped, outcome, start_dirs, prev_clean, dirs0,
                   files0>>

\* FileOrganizer(directory_to_organize): a target that is not a directory
\* raises ValueError, which the entry point logs; nothing reads config.
Construct ==
    /\ pc = "main"
    /\ pc' = IF isdir(target_directory) THEN "initialized" ELSE "value_error"
    /\ UNCHANGED <<dirs, files, config, run, listing, pending, files_moved,
                   files_skipped, outcome, start_dirs, prev_clean, dirs0,
                   files0>>

\* organize_files up to the loop: the counters and the listing; os.listdir
\* of a path that is no directory raises, which the entry point logs
StartOrganize ==
    /\ pc = "initialized"
    /\ files_moved' = 0
    /\ files_skipped' = 0
    /\ IF isdir(target_directory)
       THEN /\ listing' = listdir(target_directory)
            /\ pc' = "loop"
       ELSE /\ listing' = {}
            /\ pc' = "unexpected_error"
    /\ pending' = listing'
    /\ start_dirs' = {n \in listing' : isdir(join(target_directory, n))}
    /\ outcome' = {}
    /\ UNCHANGED <<dirs, files, config, run, prev_clean, dirs0, files0>>

done(filename, result, folder) ==
    /\ pending' = pending \ {filename}
    /\ outcome' = outcome \cup
           {[name |-> filename, result |-> result, folder |-> folder]}

\* A pass over a directory that counts it as skipped.
IgnoreDirectory_counted(filename) ==
    /\ pc = "loop"
    /\ filename \in pending
    /\ isdir(join(target_directory, filename))
    /\ files_skipped' = files_skipped + 1
    /\ done(filename, "directory", <<>>)
    /\ UNCHANGED <<dirs, files, config, pc, run, listing, files_moved,
                   start_dirs, prev_clean, dirs0, files0>>

\* one pass of the loop over a directory: continue
IgnoreDirectory(filename) ==
    /\ pc = "loop"
    /\ filename \in pending
    /\ isdir(join(target_directory, filename))
    /\ done(filename, "directory", <<>>)
    /\ UNCHANGED <<dirs, files, config, pc, run, listing, files_moved,
                   files_skipped, start_dirs, prev_clean, dirs0, files0>>

\* A pass over an extensionless file that makes the default folder before
\* it looks at the extension.
SkipNoExtension_makes_folder(filename) ==
    /\ pc = "loop"
    /\ filename \in pending
    /\ ~isdir(join(target_directory, filename))
    /\ lower(splitext(filename)[2]) = <<>>
    /\ dirs' = IF makedirs_raises(join(target_directory, Other))
               THEN dirs
               ELSE makedirs(join(target_directory, Other))
    /\ files_skipped' = files_skipped + 1
    /\ done(filename, "no_extension", <<>>)
    /\ UNCHANGED <<files, config, pc, run, listing, files_moved,
                   start_dirs, prev_clean, dirs0, files0>>

\* one pass of the loop over a file whose extension is empty
SkipNoExtension(filename) ==
    /\ pc = "loop"
    /\ filename \in pending
    /\ ~isdir(join(target_directory, filename))
    /\ lower(splitext(filename)[2]) = <<>>
    /\ files_skipped' = files_skipped + 1
    /\ done(filename, "no_extension", <<>>)
    /\ UNCHANGED <<dirs, files, config, pc, run, listing, files_moved,
                   start_dirs, prev_clean, dirs0, files0>>

\* the file has an extension: the loop resolves its folder
classified(filename) ==
    /\ pc = "loop"
    /\ filename \in pending
    /\ ~isdir(join(target_directory, filename))
    /\ lower(splitext(filename)[2]) # <<>>

destination_path(filename) ==
    join(target_directory, destination_folder_name(filename))

\* os.makedirs raises outside the try block: the exception leaves
\* organize_files and the entry point's last handler logs it
MakedirsRaises(filename) ==
    /\ classified(filename)
    /\ makedirs_raises(destination_path(filename))
    /\ pc' = "unexpected_error"
    /\ done(filename, "makedirs_raised", destination_folder_name(filename))
    /\ UNCHANGED <<dirs, files, config, run, listing, files_moved,
                   files_skipped, start_dirs, prev_clean, dirs0, files0>>

\* the folder exists or is created, and shutil.move succeeds
MoveFile(filename) ==
    LET source_path == join(target_directory, filename)
        destination_file_path == join(destination_path(filename), filename)
    IN  /\ classified(filename)
        /\ ~makedirs_raises(destination_path(filename))
        /\ dirs' = makedirs(destination_path(filename))
        /\ ~move_raises(source_path, destination_file_path)
        /\ files' = move(source_path, destination_file_path)
        /\ files_moved' = files_moved + 1
        /\ done(filename, "moved", destination_folder_name(filename))
        /\ UNCHANGED <<config, pc, run, listing, files_skipped, start_dirs,
                       prev_clean, dirs0, files0>>

\* A failed move that the except block forgets to count.
MoveFails_uncounted(filename) ==
    /\ classified(filename)
    /\ ~makedirs_raises(destination_path(filename))
    /\ dirs' = makedirs(destination_path(filename))
    /\ done(filename, "move_failed", destination_folder_name(filename))
    /\ UNCHANGED <<files, config, pc, run, listing, files_moved,
                   files_skipped, start_dirs, prev_clean, dirs0, files0>>

\* the folder exists or is created, and shutil.move raises: the name is
\* taken inside a folder standing at the destination, or the system
\* rejects the move; the except block counts the file as skipped
MoveFails(filename) ==
    /\ classified(filename)
    /\ ~makedirs_raises(destination_path(filename))
    /\ dirs' = makedirs(destination_path(filename))
    /\ files_skipped' = files_skipped + 1
    /\ done(filename, "move_failed", destination_folder_name(filename))
    /\ UNCHANGED <<files, config, pc, run, listing, files_moved, start_dirs,
                   prev_clean, dirs0, files0>>

\* the loop is over: the three closing log lines
Report ==
    /\ pc = "loop"
    /\ pending = {}
    /\ pc' = "done"
    /\ UNCHANGED <<dirs, files, config, run, listing, pending, files_moved,
                   files_skipped, outcome, start_dirs, prev_clean, dirs0,
                   files0>>

\* the pass is complete, the process has ended, and the script is started
\* again on the same directory
Rerun ==
    /\ pc = "done"
    /\ run < MaxRuns
    /\ run' = run + 1
    /\ pc' = "main"
    /\ prev_clean' = (pc = "done" /\ \A o \in outcome : o.result # "move_failed")
    /\ listing' = {}
    /\ pending' = {}
    /\ files_moved' = 0
    /\ files_skipped' = 0
    /\ outcome' = {}
    /\ start_dirs' = {}
    /\ UNCHANGED <<dirs, files, config, dirs0, files0>>

Next ==
    \/ Construct
    \/ StartOrganize
    \/ \E filename \in pending : IgnoreDirectory(filename)
    \/ \E filename \in pending : SkipNoExtension(filename)
    \/ \E filename \in pending : MakedirsRaises(filename)
    \/ \E filename \in pending : MoveFile(filename)
    \/ \E filename \in pending : MoveFails(filename)
    \/ Report
    \/ Rerun

Spec == Init /\ [][Next]_vars

\* ------------------------------------------------------------------ claims
\* the names the loop has reached with one of the results R
names_with(R) == {o.name : o \in {o \in outcome : o.result \in R}}

\* the names of the regular files standing in the target directory
root_files(F) == {r.path[1] : r \in {r \in F : Len(r.path) = 1}}

\* the names of the folders standing in the target directory
root_dirs(D) == {d[1] : d \in {d \in D : Len(d) = 1}}

\* the substring from the last '.' to the end of a name that has a '.'
from_last_dot(name) ==
    CHOOSE s \in {SubSeq(name, i, Len(name)) : i \in 1..Len(name)} :
        s[1] = "." /\ \A j \in 2..Len(s) : s[j] # "."

has_dot(name) == \E i \in 1..Len(name) : name[i] = "."

\* a '.' of the name follows a character that is not a '.'
has_dot_after_text(name) ==
    \E i \in 1..Len(name) : \E j \in (i + 1)..Len(name) :
        name[i] # "." /\ name[j] = "."

\* the category the table lists an extension under, "Other" when none does
category_of(ext) ==
    IF \E i \in 1..Len(mappings) : ext \in extensions_of(i)
    THEN mappings[CHOOSE i \in 1..Len(mappings) :
                     ext \in extensions_of(i)].category
    ELSE Other

an_upper_case_image == <<"a", ".", "J", "P", "G">>
a_dot_file == <<".", "b", "a", "s", "h", "r", "c">>
a_trailing_dot == <<"c", ".">>
a_plain_name == <<"n", "o", "t", "e", "s">>
Images == <<"I", "m", "a", "g", "e", "s">>

\* C1: when organize_files has reported, files_moved + files_skipped is the
\* number of non-directory entries the target directory held when the run
\* listed it (in the first run: the regular files it held at the start).
C1_CountsAddUp ==
    pc = "done" =>
        /\ files_moved + files_skipped = Cardinality(listing \ start_dirs)
        /\ run = 1 =>
              files_moved + files_skipped = Cardinality(root_files(files0))

C1_Witness ==
    pc = "done" /\ run = 1 /\ files_moved = 1 /\ files_skipped = 1

\* C2: a failure while handling one file (the folder cannot be made, the
\* move is rejected) never ends the run early, and the file is counted as
\* skipped once.
C2_PerFileErrorsNeverAbort ==
    /\ pc # "unexpected_error"
    /\ files_skipped =
          Cardinality(names_with({"no_extension", "makedirs_raised",
                                  "move_failed"}))

\* C3 as stated: after a run every regular file of the target directory
\* with a non-empty extension stands at <category>/<name> and no longer at
\* its original path.
C3_EveryFileWithExtensionIsFiled ==
    pc = "done" /\ run = 1 =>
        \A name \in {n \in root_files(files0) : splitext(n)[2] # <<>>} :
            LET C == category_of(lower(splitext(name)[2])) IN
            /\ [path |-> <<C, name>>, content |-> <<name>>] \in files
            /\ <<name>> \notin FilePaths

\* C3 as amended: every file whose move was attempted and did not fail is
\* gone from its original path and stands at <category>/<name>, or inside
\* <category>/<name> when that was a folder; the category is the one the
\* table gives for the lower-cased extension, "Other" when it gives none.
\* A file whose move failed, or at which os.makedirs raised, has not moved.
C3_MovedFilesAreFiled ==
    \A o \in outcome :
        LET C == category_of(lower(splitext(o.name)[2])) IN
        /\ o.result = "moved" =>
              /\ o.folder = C
              /\ <<o.name>> \notin FilePaths
              /\ \/ [path |-> <<C, o.name>>, content |-> <<o.name>>] \in files
                 \/ /\ <<C, o.name>> \in dirs
                    /\ [path |-> <<C, o.name, o.name>>,
                        content |-> <<o.name>>] \in files
        /\ o.result \in {"move_failed", "makedirs_raised"} =>
              file_at(<<o.name>>) \in files

C3_Witness ==
    /\ pc = "done"
    /\ an_upper_case_image \in names_with({"moved"})
    /\ file_at(<<an_upper_case_image>>) \notin files
    /\ [path |-> <<Images, an_upper_case_image>>,
        content |-> <<an_upper_case_image>>] \in files
    /\ names_with({"move_failed"}) # {}

\* C4: a regular file without extension stays where it is with its content,
\* adds one to files_skipped and nothing to files_moved, and no folder is
\* made for it: the folders of the target directory are those it had and
\* the category folders of its files that have an extension.
C4_ExtensionlessFilesStay ==
    /\ \A o \in outcome :
          o.name \notin start_dirs /\ splitext(o.name)[2] = <<>> =>
              /\ o.result = "no_extension"
              /\ file_at(<<o.name>>) \in files
    /\ files_skipped = Cardinality(names_with({"no_extension", "move_failed"}))
    /\ files_moved = Cardinality(names_with({"moved"}))
    /\ root_dirs(dirs) \subseteq
          root_dirs(dirs0) \cup
          {category_of(lower(splitext(n)[2])) :
              n \in {n \in root_files(files0) : splitext(n)[2] # <<>>}}

C4_Witness ==
    /\ pc = "done"
    /\ names_with({"no_extension"}) = {a_plain_name}
    /\ file_at(<<a_plain_name>>) \in files
    /\ files_skipped = 1
    /\ files_moved = 1

\* C5: an entry that is a directory when the run lists the target directory
\* stays a directory of the target directory, is passed over by the loop
\* and adds to neither counter; no directory that existed is removed.
C5_DirectoriesUntouched ==
    /\ dirs0 \subseteq dirs
    /\ \A n \in start_dirs : <<n>> \in dirs
    /\ \A o \in outcome : o.name \in start_dirs <=> o.result = "directory"
    /\ files_moved + files_skipped
          <= Cardinality({o.name : o \in outcome} \ start_dirs)

C5_Witness ==
    /\ pc = "done"
    /\ run = 2
    /\ \E n \in start_dirs : <<n>> \notin dirs0
    /\ \E n \in start_dirs : <<n>> \in dirs0
    /\ names_with({"directory"}) = start_dirs

\* a run that reported and in which no move failed
clean_pass == pc = "done" /\ names_with({"move_failed"}) = {}

\* C6 as stated: a run after a successful run moves nothing and leaves the
\* tree as it was, and after a successful run nothing but folders stands in
\* the target directory.
C6_NothingLeftFlat ==
    [][ /\ (run >= 2 /\ run' = run /\ prev_clean) =>
              (dirs' = dirs /\ files' = files /\ files_moved' = 0)
        /\ clean_pass' => root_files(files') = {} ]_vars

\* C6 as amended: a run after a run that reported without a failed move
\* moves nothing and leaves the tree as it was; after such a run the
\* regular files left in the target directory are those without extension.
C6_SecondRunMovesNothing ==
    [][ /\ (run >= 2 /\ run' = run /\ prev_clean) =>
              (dirs' = dirs /\ files' = files /\ files_moved' = 0)
        /\ clean_pass' =>
              \A n \in root_files(files') : splitext(n)[2] = <<>> ]_vars

C6_Witness ==
    /\ run = 2
    /\ prev_clean
    /\ pc = "done"
    /\ files # files0
    /\ files_moved = 0
    /\ files_skipped = 1

\* C7: with the configuration resource absent the run aborts before the
\* target directory is touched and the organizer never runs on a default
\* mapping.
C7_MissingConfigIsFatal ==
    config = "absent" =>
        /\ pc \notin {"initialized", "loop", "done"}
        /\ dirs = dirs0
        /\ files = files0
        /\ files_moved = 0

\* C8: every file that existed under the target directory before the run
\* exists exactly once afterwards, under its name and with its content.
C8_NeverDuplicatedOrDeleted ==
    \A r \in files0 :
        Len(r.path) > 0 =>
            Cardinality({s \in files :
                            /\ s.content = r.content
                            /\ Len(s.path) > 0
                            /\ s.path[Len(s.path)] = r.path[Len(r.path)]}) = 1

\* C9: when the target path is not a directory the constructor raises
\* ValueError, the entry point logs it and ends; organize_files is never
\* entered, nothing is listed, made or moved.
C9_InvalidTargetAborts ==
    target_directory \notin dirs0 =>
        /\ pc \in {"main", "value_error"}
        /\ dirs = dirs0
        /\ files = files0
        /\ listing = {}
        /\ outcome = {}
        /\ files_moved = 0
        /\ files_skipped = 0

C9_Witness ==
    /\ target_directory \notin dirs0
    /\ file_at(target_directory) \in files
    /\ pc = "value_error"

\* C10 as stated: a file is passed over as extensionless exactly when its
\* name holds no '.', and is otherwise filed under the category of the
\* lower-cased substring from its last '.'.
C10_ExtensionIsFromLastDot ==
    \A o \in {o \in outcome : o.result # "directory"} :
        /\ o.result = "no_extension" <=> ~has_dot(o.name)
        /\ o.result # "no_extension" =>
              o.folder = category_of(lower(from_last_dot(o.name)))

\* C10 as amended: a file is passed over as extensionless exactly when no
\* '.' of its name follows a character other than '.', and is otherwise
\* filed under the category of the lower-cased substring from its last '.'.
C10_ExtensionSkipsLeadingDots ==
    \A o \in {o \in outcome : o.result # "directory"} :
        /\ o.result = "no_extension" <=> ~has_dot_after_text(o.name)
        /\ o.result # "no_extension" =>
              o.folder = category_of(lower(from_last_dot(o.name)))

C10_Witness ==
    /\ pc = "done"
    /\ a_dot_file \in names_with({"no_extension"})
    /\ \E o \in outcome :
          o.name = a_trailing_dot /\ o.result = "moved" /\ o.folder = Other

====
